---- MODULE Spec2Model ----
(***************************************************************************)
(* passgen: GeneratePasswords (password.go) and GeneratePassphrases        *)
(* (passphrase.go) as a state machine.  One call runs at a time; its       *)
(* position is pc, its locals are the variables below.  Strings are Go     *)
(* strings, i.e. sequences of bytes; runes are code points.                *)
(***************************************************************************)
EXTENDS Integers, Sequences, FiniteSets, TLC

(* ---------------- bounds of the model ---------------- *)
MaxCount == 2
MaxLength == 5
MaxSrc == 2
MaxUniverse == 9

(* ---------------- package constants ---------------- *)
PasswordCountMin == 1
PasswordCountMax == MaxCount
PasswordLengthMin == 1
PasswordLengthMax == MaxLength
AlphabetLengthMin == 2
PassphraseCountMin == 1
PassphraseCountMax == MaxCount
PassphraseWordCountMin == 1
PassphraseWordCountMax == MaxLength
WordListLengthMin == 2
PassphraseCasingLower == 0
PassphraseCasingUpper == 1
PassphraseCasingTitle == 2
PassphraseCasingNone == 3

(* ---------------- errors ---------------- *)
NoErr == [param |-> "nil", lo |-> 0, hi |-> 0]
ErrCount(lo, hi) == [param |-> "count", lo |-> lo, hi |-> hi]
\* Mutant of ErrLength: the message of the length check names the count.
ErrLengthAsCount(lo, hi) == [param |-> "count", lo |-> lo, hi |-> hi]

ErrLength(lo, hi) == [param |-> "length", lo |-> lo, hi |-> hi]
ErrWordCount(lo, hi) == [param |-> "word count", lo |-> lo, hi |-> hi]
ErrAlphabet(lo) == [param |-> "alphabet", lo |-> lo, hi |-> 0]
ErrWordList(lo) == [param |-> "word list", lo |-> lo, hi |-> 0]
ErrCasing == [param |-> "invalid word casing", lo |-> 0, hi |-> 0]
ErrEOF == [param |-> "EOF", lo |-> 0, hi |-> 0]
ErrUnexpectedEOF == [param |-> "unexpected EOF", lo |-> 0, hi |-> 0]

(* ---------------- UTF-8 (range over a string, WriteRune) ---------------- *)
RuneError == 65533

IsCont(s, k) == k <= Len(s) /\ s[k] >= 128 /\ s[k] <= 191

\* The rune and width that `range` decodes at position k of the string s.
DecodeRuneAt(s, k) ==
    LET b0 == s[k] IN
    IF b0 < 128 THEN [r |-> b0, w |-> 1]
    ELSE IF b0 >= 194 /\ b0 <= 223 /\ IsCont(s, k + 1)
    THEN [r |-> (b0 % 32) * 64 + (s[k + 1] % 64), w |-> 2]
    ELSE IF b0 >= 224 /\ b0 <= 239 /\ IsCont(s, k + 1) /\ IsCont(s, k + 2)
            /\ (b0 = 224 => s[k + 1] >= 160) /\ (b0 = 237 => s[k + 1] <= 159)
    THEN [r |-> (b0 % 16) * 4096 + (s[k + 1] % 64) * 64 + (s[k + 2] % 64), w |-> 3]
    ELSE IF b0 >= 240 /\ b0 <= 244 /\ IsCont(s, k + 1) /\ IsCont(s, k + 2)
            /\ IsCont(s, k + 3)
            /\ (b0 = 240 => s[k + 1] >= 144) /\ (b0 = 244 => s[k + 1] <= 143)
    THEN [r |-> (b0 % 8) * 262144 + (s[k + 1] % 64) * 4096
                 + (s[k + 2] % 64) * 64 + (s[k + 3] % 64), w |-> 4]
    ELSE [r |-> RuneError, w |-> 1]

RECURSIVE DecodeFrom(_, _)
DecodeFrom(s, k) ==
    IF k > Len(s) THEN << >>
    ELSE LET d == DecodeRuneAt(s, k) IN << d.r >> \o DecodeFrom(s, k + d.w)

\* The runes `for _, char := range s` yields, in order.
Runes(s) == DecodeFrom(s, 1)

\* utf8.RuneCountInString
RuneCountInString(s) == Len(Runes(s))

\* Mutant of EncodeRune: the rune is written as a single byte (WriteByte(byte(r))).
EncodeRuneAsByte(r) == << r % 256 >>

\* The bytes strings.Builder.WriteRune appends for the rune r.
EncodeRune(r) ==
    LET c == IF r < 0 \/ r > 1114111 \/ (r >= 55296 /\ r <= 57343)
             THEN RuneError ELSE r IN
    IF c < 128 THEN << c >>
    ELSE IF c < 2048 THEN << 192 + (c \div 64), 128 + (c % 64) >>
    ELSE IF c < 65536
    THEN << 224 + (c \div 4096), 128 + ((c \div 64) % 64), 128 + (c % 64) >>
    ELSE << 240 + (c \div 262144), 128 + ((c \div 4096) % 64),
            128 + ((c \div 64) % 64), 128 + (c % 64) >>

(* ---------------- sets and their iteration order ---------------- *)
Range(f) == { f[k] : k \in DOMAIN f }

\* Every order in which a map holding the keys S can be iterated.
Orders(S) ==
    { f \in [1 .. Cardinality(S) -> S] : Range(f) = S }

(* ---------------- bit plan and bit reads: password.go ---------------- *)
\* uint(math.Ceil(math.Log2(float64(n)))) for n >= 1
CeilLog2(n) == CHOOSE e \in 0 .. n : 2 ^ e >= n /\ \A d \in 0 .. e - 1 : 2 ^ d < n

PwBitsPerChar(n) == CeilLog2(n)

PwBitsPerPassword(n, length) == PwBitsPerChar(n) * length

\* Mutant of PwBytesPerPassword: the final partial byte is not counted.
PwBytesNoRoundUp(n, length) == PwBitsPerPassword(n, length) \div 8

\* Mutant of PwBytesPerPassword: one byte is always added to the quotient.
PwBytesOneMore(n, length) == (PwBitsPerPassword(n, length) \div 8) + 1

PwBytesPerPassword(n, length) ==
    LET bits == PwBitsPerPassword(n, length) IN
    (bits \div 8) + (IF bits % 8 > 0 THEN 1 ELSE 0)

\* x & m for a mask m with a single bit set
AndMask(x, m) == ((x \div m) % 2) * m

\* Mutant of PwSourceBit: the bits of a byte are read least significant first.
PwSourceBitLittle(buf, byteIdx, bitIdx) ==
    (buf[byteIdx + 1] \div (2 ^ (bitIdx % 8))) % 2

\* (buf[byteIdx] & (0x80 >> (bitIdx % 8))) >> (7 - (bitIdx % 8)); byteIdx from 0
PwSourceBit(buf, byteIdx, bitIdx) ==
    AndMask(buf[byteIdx + 1], 128 \div (2 ^ (bitIdx % 8))) \div (2 ^ (7 - (bitIdx % 8)))

\* charIdx <<= 1; charIdx |= bit
PwShiftIn(charIdx, buf, byteIdx, bitIdx) ==
    (charIdx * 2) + PwSourceBit(buf, byteIdx, bitIdx)

\* Mutant of PwNextByteIdx: the byte cursor moves on after every bit.
PwNextByteIdxAlways(byteIdx, newBitIdx) == byteIdx + 1

\* bitIdx++; if bitIdx%8 == 0 { byteIdx++ }: the new byteIdx, given the new bitIdx
PwNextByteIdx(byteIdx, newBitIdx) ==
    IF newBitIdx % 8 = 0 THEN byteIdx + 1 ELSE byteIdx

\* Mutant of PwReduce: a value beyond the universe is clamped to its last index.
PwReduceClamp(charIdx, n) == IF charIdx >= n THEN n - 1 ELSE charIdx

\* charIdx = charIdx % uint(len(charSet))
PwReduce(charIdx, n) == charIdx % n

\* charSet[charIdx], charIdx from 0
PwLookup(charSet, charIdx) == charSet[charIdx + 1]

\* b.WriteRune(charSet[charIdx])
PwWrite(bld, charSet, charIdx) == bld \o EncodeRune(PwLookup(charSet, charIdx))

\* the loop condition i < count
PwMore(i_, count) == i_ < count

\* Mutant of PwReset: the builder is not reset between passwords.
PwResetMissing(bld) == bld

\* b.Reset()
PwReset(bld) == << >>

\* The deduplicated characters of the alphabet (the keys of the map chars).
PwChars(alphabet) == Range(Runes(alphabet))

\* Mutant of PwCountOk: the upper bound is not checked.
PwCountOkNoMax(count) == ~(count < PasswordCountMin)

PwCountOk(count) == ~(count < PasswordCountMin \/ count > PasswordCountMax)

\* Mutant of PwLengthOk: the lower bound is not checked.
PwLengthOkNoMin(length) == ~(length > PasswordLengthMax)

PwLengthOk(length) == ~(length < PasswordLengthMin \/ length > PasswordLengthMax)

\* Mutant of PwAlphabetOk: one unique character is accepted.
PwAlphabetOkOne(chars) == ~(Cardinality(chars) < 1)

PwAlphabetOk(chars) == ~(Cardinality(chars) < AlphabetLengthMin)

(* ---------------- casing, bit plan and bit reads: passphrase.go ---------------- *)
IsUpperAZ(c) == c >= 65 /\ c <= 90

IsLowerAZ(c) == c >= 97 /\ c <= 122

\* strings.ToLower on an ASCII string
ToLower(w) == [k \in 1 .. Len(w) |-> IF IsUpperAZ(w[k]) THEN w[k] + 32 ELSE w[k]]

\* strings.ToUpper on an ASCII string
ToUpper(w) == [k \in 1 .. Len(w) |-> IF IsLowerAZ(w[k]) THEN w[k] - 32 ELSE w[k]]

\* strings.isSeparator on an ASCII rune: letters, digits and underscore are not
IsSeparator(c) ==
    ~(IsUpperAZ(c) \/ IsLowerAZ(c) \/ (c >= 48 /\ c <= 57) \/ c = 95)

\* Mutant of Title: only the first letter of the string is capitalized.
TitleFirstOnly(w) ==
    [k \in 1 .. Len(w) |-> IF k = 1 /\ IsLowerAZ(w[k]) THEN w[k] - 32 ELSE w[k]]

\* Mutant of Title: the first letter is capitalized and the rest lowered.
TitleLowerRest(w) ==
    [k \in 1 .. Len(w) |->
        IF k = 1 THEN (IF IsLowerAZ(w[k]) THEN w[k] - 32 ELSE w[k])
        ELSE (IF IsUpperAZ(w[k]) THEN w[k] + 32 ELSE w[k])]

\* strings.Title on an ASCII string: the letter after a separator (or at the
\* start) is mapped by unicode.ToTitle, every other rune is kept.
Title(w) ==
    [k \in 1 .. Len(w) |->
        IF IsSeparator(IF k = 1 THEN 32 ELSE w[k - 1]) /\ IsLowerAZ(w[k])
        THEN w[k] - 32 ELSE w[k]]

\* Mutant of CasingValid: the selector is not validated.
CasingValidAny(casing) == TRUE

CasingValid(casing) ==
    casing \in {PassphraseCasingLower, PassphraseCasingUpper,
                PassphraseCasingTitle, PassphraseCasingNone}

\* Mutant of Cased: every valid policy stores the word as given.
CasedAsGiven(casing, w) == IF CasingValid(casing) THEN { w } ELSE {}

\* The keys the switch of the deduplication loop stores for one word: one
\* key in each of its four cases, none otherwise (the switch has no default).
Cased(casing, w) ==
    IF casing = PassphraseCasingLower THEN { ToLower(w) }
    ELSE IF casing = PassphraseCasingUpper THEN { ToUpper(w) }
    ELSE IF casing = PassphraseCasingTitle THEN { Title(w) }
    ELSE IF casing = PassphraseCasingNone THEN { w }
    ELSE {}

\* Mutant of PpWords: the words are deduplicated as given, before any casing.
PpWordsUncased(casing, wordList) == Range(wordList)

\* The keys of the map words after the deduplication loop.
PpWords(casing, wordList) ==
    UNION { Cased(casing, wordList[k]) : k \in DOMAIN wordList }

\* Mutant of PpCountOk: the count is not checked.
PpCountOkAlways(count) == TRUE

PpCountOk(count) == ~(count < PassphraseCountMin \/ count > PassphraseCountMax)

\* Mutant of PpWordCountOk: the upper bound is not checked.
PpWordCountOkNoMax(wordCount) == ~(wordCount < PassphraseWordCountMin)

PpWordCountOk(wordCount) ==
    ~(wordCount < PassphraseWordCountMin \/ wordCount > PassphraseWordCountMax)

\* Mutant of PpWordListOk: one unique word is accepted.
PpWordListOkOne(words) == ~(Cardinality(words) < 1)

PpWordListOk(words) == ~(Cardinality(words) < WordListLengthMin)

PpBitsPerWord(n) == CeilLog2(n)

PpBitsPerPassphrase(n, wordCount) == PpBitsPerWord(n) * wordCount

PpBytesPerPassphrase(n, wordCount) ==
    LET bits == PpBitsPerPassphrase(n, wordCount) IN
    (bits \div 8) + (IF bits % 8 > 0 THEN 1 ELSE 0)

\* Mutant of PpSourceBit: the bits of a byte are read least significant first.
PpSourceBitLittle(buf, byteIdx, bitIdx) ==
    (buf[byteIdx + 1] \div (2 ^ (bitIdx % 8))) % 2

PpSourceBit(buf, byteIdx, bitIdx) ==
    AndMask(buf[byteIdx + 1], 128 \div (2 ^ (bitIdx % 8))) \div (2 ^ (7 - (bitIdx % 8)))

PpShiftIn(wordIdx, buf, byteIdx, bitIdx) ==
    (wordIdx * 2) + PpSourceBit(buf, byteIdx, bitIdx)

PpNextByteIdx(byteIdx, newBitIdx) ==
    IF newBitIdx % 8 = 0 THEN byteIdx + 1 ELSE byteIdx

\* Mutant of PpReduce: the assembled value is used as it is.
PpReduceNone(wordIdx, n) == wordIdx

PpReduce(wordIdx, n) == wordIdx % n

\* Mutant of PpSeparatorAfter: the separator also follows the last word.
PpSeparatorAlways(j_, wordCount, separator) ==
    IF j_ < wordCount THEN EncodeRune(separator) ELSE << >>

\* if j < wordCount-1 { b.WriteRune(separator) }
PpSeparatorAfter(j_, wordCount, separator) ==
    IF j_ < wordCount - 1 THEN EncodeRune(separator) ELSE << >>

\* wordSet[wordIdx], wordIdx from 0
PpLookup(wordSet, wordIdx) == wordSet[wordIdx + 1]

\* b.WriteString(wordSet[wordIdx]) and the separator that follows it
PpWrite(bld, wordSet, wordIdx, j_, wordCount, separator) ==
    bld \o PpLookup(wordSet, wordIdx) \o PpSeparatorAfter(j_, wordCount, separator)

\* Mutant of PpMore: the loop runs once more.
PpMoreInclusive(i_, count) == i_ <= count

\* the loop condition i < count
PpMore(i_, count) == i_ < count

\* b.Reset()
PpReset(bld) == << >>

(* ---------------- the inner loops run to their end ---------------- *)
\* The two inner loops of GeneratePasswords (password.go 75-98) run from the
\* cursor values given to the end of the password: the sequence of
\* [raw, idx] pairs, raw being charIdx before the reduction and idx after it.
RECURSIVE PwExtract(_, _, _, _, _, _, _, _, _, _)
PwExtract(buf, n, bits, length, j_, byteIdx_, bitIdx_, charIdx, charBitIdx, done) ==
    IF ~(j_ < length) THEN done
    ELSE IF charBitIdx < bits
    THEN PwExtract(buf, n, bits, length, j_,
                   PwNextByteIdx(byteIdx_, bitIdx_ + 1), bitIdx_ + 1,
                   PwShiftIn(charIdx, buf, byteIdx_, bitIdx_), charBitIdx + 1, done)
    ELSE PwExtract(buf, n, bits, length, j_ + 1, byteIdx_, bitIdx_, 0, 0,
                   Append(done, [raw |-> charIdx, idx |-> PwReduce(charIdx, n)]))

\* The two inner loops of GeneratePassphrases (passphrase.go 97-125), likewise.
RECURSIVE PpExtract(_, _, _, _, _, _, _, _, _, _)
PpExtract(buf, n, bits, wordCount, j_, byteIdx_, bitIdx_, wordIdx, wordBitIdx, done) ==
    IF ~(j_ < wordCount) THEN done
    ELSE IF wordBitIdx < bits
    THEN PpExtract(buf, n, bits, wordCount, j_,
                   PpNextByteIdx(byteIdx_, bitIdx_ + 1), bitIdx_ + 1,
                   PpShiftIn(wordIdx, buf, byteIdx_, bitIdx_), wordBitIdx + 1, done)
    ELSE PpExtract(buf, n, bits, wordCount, j_ + 1, byteIdx_, bitIdx_, 0, 0,
                   Append(done, [raw |-> wordIdx, idx |-> PpReduce(wordIdx, n)]))

(* ---------------- the random source (io.ReadFull on randSource) ---------------- *)
\* Byte values the source delivers in the model.
ByteVals == {108, 255}

\* randSource is crypto/rand.Reader (unlimited) or, as in the tests, a reader
\* holding `left` more bytes.
Sources ==
    { [unlimited |-> TRUE, left |-> 0] }
        \cup { [unlimited |-> FALSE, left |-> n] : n \in 0 .. MaxSrc }

\* How many bytes io.ReadFull(src, buf) copies into a buffer of n bytes.
ReadFullN(src, n) == IF src.unlimited \/ src.left >= n THEN n ELSE src.left

\* The error io.ReadFull returns after copying m of n bytes.
ReadFullErr(m, n) ==
    IF m >= n THEN NoErr ELSE IF m = 0 THEN ErrEOF ELSE ErrUnexpectedEOF

\* The source after m bytes were read from it.
Advance(src, m) == IF src.unlimited THEN src ELSE [src EXCEPT !.left = @ - m]

(* ---------------- inputs of the model ---------------- *)
Alphabets ==
    { << >>,                                      \* ""
      << 120 >>,                                  \* "x"
      << 120, 120 >>,                             \* "xx"
      << 97, 98 >>,                               \* "ab"
      << 97, 195, 188, 226, 130, 172 >>,          \* "a", u-umlaut, euro sign
      << 240, 159, 144, 182, 240, 159, 144, 177 >>, \* two 4-byte runes
      << 97, 98, 99, 97, 100 >>,                  \* "abcad"
      << 255, 97 >> }                             \* an invalid byte, then "a"

Separators == { 45, 8226 }                        \* '-' and a 3-byte bullet

Casings ==
    { PassphraseCasingLower, PassphraseCasingUpper, PassphraseCasingTitle,
      PassphraseCasingNone, 255 }

WordLists ==
    { << >>,
      << << 120 >> >>,                            \* ["x"]
      << << 97 >>, << 97 >> >>,                   \* ["a","a"]
      << << 97, 98 >>, << 65, 66 >> >>,           \* ["ab","AB"]
      << << 97, 98 >>, << 97, 66 >>, << 98 >> >>, \* ["ab","aB","b"]
      << << 97, 45, 98 >>, << 99 >> >>,           \* ["a-b","c"]
      << << >>, << 97 >> >>,                      \* ["","a"]
      << << 65, 108, 102, 97 >>, << 66, 82, 65, 86, 79 >> >> } \* ["Alfa","BRAVO"]

(* ---------------- state ---------------- *)
VARIABLES
    randSource,  \* the package-level random source
    pc,          \* position of the running call: idle, loop, symbols, done, panic
    fn,          \* "password", "passphrase" or "none"
    args,        \* the arguments of the running call
    symSet,      \* charSet / wordSet
    bitsPer,     \* bitsPerChar / bitsPerWord
    bytesPer,    \* bytesPerPassword / bytesPerPassphrase
    i, j,        \* artifact counter, symbol counter
    symIdx,      \* charIdx / wordIdx
    bitIdx, byteIdx,
    symBitIdx,   \* charBitIdx / wordBitIdx
    buffer,      \* passwordBuffer / passphraseBuffer
    b,           \* the strings.Builder
    acc,         \* passwords / passphrases while the call runs
    out, err,    \* the returned list and error
    fills,       \* history: calls of io.ReadFull made by the running call
    got,         \* history: bytes the source delivered to the running call
    picks        \* history: per artifact, the symbols looked up

vars ==
    << randSource, pc, fn, args, symSet, bitsPer, bytesPer, i, j, symIdx, bitIdx,
       byteIdx, symBitIdx, buffer, b, acc, out, err, fills, got, picks >>

NoArgs == [count |-> 0]

Init ==
    /\ randSource \in Sources
    /\ pc = "idle"
    /\ fn = "none"
    /\ args = NoArgs
    /\ symSet = << >>
    /\ bitsPer = 0
    /\ bytesPer = 0
    /\ i = 0
    /\ j = 0
    /\ symIdx = 0
    /\ bitIdx = 0
    /\ byteIdx = 0
    /\ symBitIdx = 0
    /\ buffer = << >>
    /\ b = << >>
    /\ acc = << >>
    /\ out = << >>
    /\ err = NoErr
    /\ fills = 0
    /\ got = << >>
    /\ picks = << >>

\* return nil, e
ReturnErr(e) ==
    /\ pc' = "done"
    /\ out' = << >>
    /\ err' = e

(* ---------------- GeneratePasswords ---------------- *)
\* Mutant of PwFreshBitIdx: bitIdx is declared outside the outer loop and
\* keeps its value from one password to the next.
PwCarriedBitIdx == bitIdx

\* var bitIdx uint, declared inside the outer loop: 0 for every password
PwFreshBitIdx == 0

\* Mutant of PwFreshBuffer: the buffer is made once and a filled one is kept.
PwStaleBuffer(n, m, data) ==
    IF Len(buffer) = n THEN buffer
    ELSE [k \in 1 .. n |-> IF k <= m THEN data[k] ELSE 0]

\* passwordBuffer = make([]byte, bytesPerPassword), then the m bytes read into it
PwFreshBuffer(n, m, data) == [k \in 1 .. n |-> IF k <= m THEN data[k] ELSE 0]

\* Mutant of PwOnReadErr: the passwords assembled so far are returned with the error.
PwOnReadErrPartial(e) ==
    /\ pc' = "done"
    /\ out' = acc
    /\ err' = e

\* Mutant of PwOnReadErr: the failed read is tried again.
PwOnReadErrRetry(e) ==
    /\ pc' = "loop"
    /\ UNCHANGED << out, err >>

\* if err != nil { return nil, err } after io.ReadFull
PwOnReadErr(e) == ReturnErr(e)

\* The body of GeneratePasswords up to its outer loop: validation,
\* deduplication and the bit plan (password.go 19-57).
PwEntry(count, length, alphabet) ==
    /\ fn' = "password"
    /\ UNCHANGED << randSource, i, j, symIdx, bitIdx, byteIdx, symBitIdx, buffer,
                    b, acc, fills, got, picks >>
    /\ IF ~PwCountOk(count)
       THEN /\ ReturnErr(ErrCount(PasswordCountMin, PasswordCountMax))
            /\ UNCHANGED << symSet, bitsPer, bytesPer >>
       ELSE IF ~PwLengthOk(length)
       THEN /\ ReturnErr(ErrLength(PasswordLengthMin, PasswordLengthMax))
            /\ UNCHANGED << symSet, bitsPer, bytesPer >>
       ELSE IF ~PwAlphabetOk(PwChars(alphabet))
       THEN /\ ReturnErr(ErrAlphabet(AlphabetLengthMin))
            /\ UNCHANGED << symSet, bitsPer, bytesPer >>
       ELSE /\ symSet' \in Orders(PwChars(alphabet))
            /\ bitsPer' = PwBitsPerChar(Cardinality(PwChars(alphabet)))
            /\ bytesPer' = PwBytesPerPassword(Cardinality(PwChars(alphabet)), length)
            /\ pc' = "loop"
            /\ UNCHANGED << out, err >>

\* A call of GeneratePasswords (password.go 11-57).
PwCall(count, length, alphabet) ==
    /\ pc = "idle"
    /\ args' = [count |-> count, length |-> length, alphabet |-> alphabet]
    /\ PwEntry(count, length, alphabet)

\* Loop head with i < count: make the buffer and fill it (password.go 59-73).
PwFill ==
    /\ pc = "loop" /\ fn = "password"
    /\ PwMore(i, args.count)
    /\ LET m == ReadFullN(randSource, bytesPer) IN
       /\ randSource' = Advance(randSource, m)
       /\ fills' = fills + 1
       /\ \E data \in [1 .. m -> ByteVals] :
            /\ got' = got \o data
            /\ buffer' = PwFreshBuffer(bytesPer, m, data)
       /\ IF ReadFullErr(m, bytesPer) # NoErr
          THEN /\ PwOnReadErr(ReadFullErr(m, bytesPer))
               /\ UNCHANGED << j, symIdx, bitIdx, byteIdx, symBitIdx, picks >>
          ELSE /\ pc' = "symbols"
               /\ j' = 0
               /\ symIdx' = 0
               /\ bitIdx' = PwFreshBitIdx
               /\ byteIdx' = 0
               /\ symBitIdx' = 0
               /\ picks' = Append(picks, << >>)
               /\ UNCHANGED << out, err >>
    /\ UNCHANGED << fn, args, symSet, bitsPer, bytesPer, i, b, acc >>

\* One pass of the inner loop: read the next bit (password.go 76-88).
PwReadBit ==
    /\ pc = "symbols" /\ fn = "password"
    /\ j < args.length
    /\ symBitIdx < bitsPer
    /\ IF byteIdx >= Len(buffer)
       THEN /\ pc' = "panic"
            /\ UNCHANGED << symIdx, bitIdx, byteIdx, symBitIdx >>
       ELSE /\ symIdx' = PwShiftIn(symIdx, buffer, byteIdx, bitIdx)
            /\ bitIdx' = bitIdx + 1
            /\ byteIdx' = PwNextByteIdx(byteIdx, bitIdx + 1)
            /\ symBitIdx' = symBitIdx + 1
            /\ pc' = "symbols"
    /\ UNCHANGED << randSource, fn, args, symSet, bitsPer, bytesPer, i, j, buffer,
                    b, acc, out, err, fills, got, picks >>

\* The inner loop is over: reduce, look up, write (password.go 90-97).
PwWriteChar ==
    /\ pc = "symbols" /\ fn = "password"
    /\ j < args.length
    /\ symBitIdx >= bitsPer
    /\ LET idx == PwReduce(symIdx, Len(symSet)) IN
       IF idx >= Len(symSet)
       THEN /\ pc' = "panic"
            /\ UNCHANGED << b, picks, symIdx, j, symBitIdx >>
       ELSE /\ b' = PwWrite(b, symSet, idx)
            /\ picks' = [picks EXCEPT ![Len(picks)] =
                            Append(@, [raw |-> symIdx, idx |-> idx,
                                       sym |-> PwLookup(symSet, idx)])]
            /\ symIdx' = 0
            /\ j' = j + 1
            /\ symBitIdx' = 0
            /\ pc' = "symbols"
    /\ UNCHANGED << randSource, fn, args, symSet, bitsPer, bytesPer, i, bitIdx,
                    byteIdx, buffer, acc, out, err, fills, got >>

\* j = length: append the password and reset the builder (password.go 100-104).
PwAppend ==
    /\ pc = "symbols" /\ fn = "password"
    /\ j >= args.length
    /\ acc' = Append(acc, b)
    /\ b' = PwReset(b)
    /\ i' = i + 1
    /\ pc' = "loop"
    /\ UNCHANGED << randSource, fn, args, symSet, bitsPer, bytesPer, j, symIdx,
                    bitIdx, byteIdx, symBitIdx, buffer, out, err, fills, got, picks >>

\* Loop head with i = count: return (password.go 107).
PwReturn ==
    /\ pc = "loop" /\ fn = "password"
    /\ ~PwMore(i, args.count)
    /\ pc' = "done"
    /\ out' = acc
    /\ err' = NoErr
    /\ UNCHANGED << randSource, fn, args, symSet, bitsPer, bytesPer, i, j, symIdx,
                    bitIdx, byteIdx, symBitIdx, buffer, b, acc, fills, got, picks >>

(* ---------------- GeneratePassphrases ---------------- *)
\* passphraseBuffer = make([]byte, bytesPerPassphrase), then the m bytes read into it
PpFreshBuffer(n, m, data) == [k \in 1 .. n |-> IF k <= m THEN data[k] ELSE 0]

\* if err != nil { return nil, err } after io.ReadFull
PpOnReadErr(e) == ReturnErr(e)

\* The body of GeneratePassphrases up to its outer loop: validation, casing,
\* deduplication and the bit plan (passphrase.go 24-79).
PpEntry(count, wordCount, separator, casing, wordList) ==
    /\ fn' = "passphrase"
    /\ UNCHANGED << randSource, i, j, symIdx, bitIdx, byteIdx, symBitIdx, buffer,
                    b, acc, fills, got, picks >>
    /\ IF ~PpCountOk(count)
       THEN /\ ReturnErr(ErrCount(PassphraseCountMin, PassphraseCountMax))
            /\ UNCHANGED << symSet, bitsPer, bytesPer >>
       ELSE IF ~PpWordCountOk(wordCount)
       THEN /\ ReturnErr(ErrWordCount(PassphraseWordCountMin, PassphraseWordCountMax))
            /\ UNCHANGED << symSet, bitsPer, bytesPer >>
       ELSE IF ~CasingValid(casing)
       THEN /\ ReturnErr(ErrCasing)
            /\ UNCHANGED << symSet, bitsPer, bytesPer >>
       ELSE IF ~PpWordListOk(PpWords(casing, wordList))
       THEN /\ ReturnErr(ErrWordList(WordListLengthMin))
            /\ UNCHANGED << symSet, bitsPer, bytesPer >>
       ELSE /\ symSet' \in Orders(PpWords(casing, wordList))
            /\ bitsPer' = PpBitsPerWord(Cardinality(PpWords(casing, wordList)))
            /\ bytesPer' =
                 PpBytesPerPassphrase(Cardinality(PpWords(casing, wordList)), wordCount)
            /\ pc' = "loop"
            /\ UNCHANGED << out, err >>

\* A call of GeneratePassphrases (passphrase.go 14-79).
PpCall(count, wordCount, separator, casing, wordList) ==
    /\ pc = "idle"
    /\ args' = [count |-> count, wordCount |-> wordCount, separator |-> separator,
                casing |-> casing, wordList |-> wordList]
    /\ PpEntry(count, wordCount, separator, casing, wordList)

\* Loop head with i < count: make the buffer and fill it (passphrase.go 81-95).
PpFill ==
    /\ pc = "loop" /\ fn = "passphrase"
    /\ PpMore(i, args.count)
    /\ LET m == ReadFullN(randSource, bytesPer) IN
       /\ randSource' = Advance(randSource, m)
       /\ fills' = fills + 1
       /\ \E data \in [1 .. m -> ByteVals] :
            /\ got' = got \o data
            /\ buffer' = PpFreshBuffer(bytesPer, m, data)
       /\ IF ReadFullErr(m, bytesPer) # NoErr
          THEN /\ PpOnReadErr(ReadFullErr(m, bytesPer))
               /\ UNCHANGED << j, symIdx, bitIdx, byteIdx, symBitIdx, picks >>
          ELSE /\ pc' = "symbols"
               /\ j' = 0
               /\ symIdx' = 0
               /\ bitIdx' = 0
               /\ byteIdx' = 0
               /\ symBitIdx' = 0
               /\ picks' = Append(picks, << >>)
               /\ UNCHANGED << out, err >>
    /\ UNCHANGED << fn, args, symSet, bitsPer, bytesPer, i, b, acc >>

\* One pass of the inner loop: read the next bit (passphrase.go 98-110).
PpReadBit ==
    /\ pc = "symbols" /\ fn = "passphrase"
    /\ j < args.wordCount
    /\ symBitIdx < bitsPer
    /\ IF byteIdx >= Len(buffer)
       THEN /\ pc' = "panic"
            /\ UNCHANGED << symIdx, bitIdx, byteIdx, symBitIdx >>
       ELSE /\ symIdx' = PpShiftIn(symIdx, buffer, byteIdx, bitIdx)
            /\ bitIdx' = bitIdx + 1
            /\ byteIdx' = PpNextByteIdx(byteIdx, bitIdx + 1)
            /\ symBitIdx' = symBitIdx + 1
            /\ pc' = "symbols"
    /\ UNCHANGED << randSource, fn, args, symSet, bitsPer, bytesPer, i, j, buffer,
                    b, acc, out, err, fills, got, picks >>

\* The inner loop is over: reduce, look up, write the word and, unless it is
\* the last word, the separator (passphrase.go 112-124).
PpWriteWord ==
    /\ pc = "symbols" /\ fn = "passphrase"
    /\ j < args.wordCount
    /\ symBitIdx >= bitsPer
    /\ LET idx == PpReduce(symIdx, Len(symSet)) IN
       IF idx >= Len(symSet)
       THEN /\ pc' = "panic"
            /\ UNCHANGED << b, picks, symIdx, j, symBitIdx >>
       ELSE /\ b' = PpWrite(b, symSet, idx, j, args.wordCount, args.separator)
            /\ picks' = [picks EXCEPT ![Len(picks)] =
                            Append(@, [raw |-> symIdx, idx |-> idx,
                                       sym |-> PpLookup(symSet, idx)])]
            /\ symIdx' = 0
            /\ j' = j + 1
            /\ symBitIdx' = 0
            /\ pc' = "symbols"
    /\ UNCHANGED << randSource, fn, args, symSet, bitsPer, bytesPer, i, bitIdx,
                    byteIdx, buffer, acc, out, err, fills, got >>

\* j = wordCount: append the passphrase and reset the builder (passphrase.go 127-131).
PpAppend ==
    /\ pc = "symbols" /\ fn = "passphrase"
    /\ j >= args.wordCount
    /\ acc' = Append(acc, b)
    /\ b' = PpReset(b)
    /\ i' = i + 1
    /\ pc' = "loop"
    /\ UNCHANGED << randSource, fn, args, symSet, bitsPer, bytesPer, j, symIdx,
                    bitIdx, byteIdx, symBitIdx, buffer, out, err, fills, got, picks >>

\* Loop head with i = count: return (passphrase.go 134).
PpReturn ==
    /\ pc = "loop" /\ fn = "passphrase"
    /\ ~PpMore(i, args.count)
    /\ pc' = "done"
    /\ out' = acc
    /\ err' = NoErr
    /\ UNCHANGED << randSource, fn, args, symSet, bitsPer, bytesPer, i, j, symIdx,
                    bitIdx, byteIdx, symBitIdx, buffer, b, acc, fills, got, picks >>

(* ---------------- the caller ---------------- *)
\* The call has returned; its locals are gone and the next call may start.
\* Only the package-level random source outlives the call.
Finish ==
    /\ pc = "done"
    /\ pc' = "idle"
    /\ fn' = "none"
    /\ args' = NoArgs
    /\ symSet' = << >>
    /\ bitsPer' = 0
    /\ bytesPer' = 0
    /\ i' = 0
    /\ j' = 0
    /\ symIdx' = 0
    /\ bitIdx' = 0
    /\ byteIdx' = 0
    /\ symBitIdx' = 0
    /\ buffer' = << >>
    /\ b' = << >>
    /\ acc' = << >>
    /\ out' = << >>
    /\ err' = NoErr
    /\ fills' = 0
    /\ got' = << >>
    /\ picks' = << >>
    /\ UNCHANGED randSource

PwCallAny ==
    \E count \in 0 .. PasswordCountMax + 1, length \in 0 .. PasswordLengthMax + 1,
       alphabet \in Alphabets :
        PwCall(count, length, alphabet)

PpCallAny ==
    \E count \in 0 .. PassphraseCountMax + 1, wordCount \in 0 .. PassphraseWordCountMax + 1,
       separator \in Separators, casing \in Casings, wordList \in WordLists :
        PpCall(count, wordCount, separator, casing, wordList)

Next ==
    \/ PwCallAny
    \/ PwFill
    \/ PwReadBit
    \/ PwWriteChar
    \/ PwAppend
    \/ PwReturn
    \/ PpCallAny
    \/ PpFill
    \/ PpReadBit
    \/ PpWriteWord
    \/ PpAppend
    \/ PpReturn
    \/ Finish

Spec == Init /\ [][Next]_vars

(* ---------------- the extraction loops on their own ---------------- *)
\* The universe of n one-letter symbols "a", "b", ... as runes (a charSet).
Letters(n) == [k \in 1 .. n |-> 96 + k]

\* The same universe as one-letter words (a wordSet).
LetterWords(n) == [k \in 1 .. n |-> << 96 + k >>]

\* A call that has passed validation with a universe of n symbols, iterated
\* in the order a, b, ..., and stands at the head of its outer loop.
InitExtract ==
    /\ randSource \in Sources
    /\ pc = "loop"
    /\ fn \in {"password", "passphrase"}
    /\ \E n \in AlphabetLengthMin .. MaxUniverse,
          count \in PasswordCountMin .. PasswordCountMax,
          length \in PasswordLengthMin .. PasswordLengthMax :
        IF fn = "password"
        THEN /\ args = [count |-> count, length |-> length, alphabet |-> Letters(n)]
             /\ symSet = Letters(n)
             /\ bitsPer = PwBitsPerChar(n)
             /\ bytesPer = PwBytesPerPassword(n, length)
        ELSE /\ args = [count |-> count, wordCount |-> length, separator |-> 45,
                        casing |-> PassphraseCasingNone, wordList |-> LetterWords(n)]
             /\ symSet = LetterWords(n)
             /\ bitsPer = PpBitsPerWord(n)
             /\ bytesPer = PpBytesPerPassphrase(n, length)
    /\ i = 0
    /\ j = 0
    /\ symIdx = 0
    /\ bitIdx = 0
    /\ byteIdx = 0
    /\ symBitIdx = 0
    /\ buffer = << >>
    /\ b = << >>
    /\ acc = << >>
    /\ out = << >>
    /\ err = NoErr
    /\ fills = 0
    /\ got = << >>
    /\ picks = << >>

NextExtract ==
    \/ PwFill
    \/ PwReadBit
    \/ PwWriteChar
    \/ PwAppend
    \/ PwReturn
    \/ PpFill
    \/ PpReadBit
    \/ PpWriteWord
    \/ PpAppend
    \/ PpReturn

SpecExtract == InitExtract /\ [][NextExtract]_vars

(* ---------------- the commands of cmd/passgen ---------------- *)
\* Defaults of the package, given to the commands' configuration.
PasswordCountDefault == 1
PasswordLengthDefault == 2
PassphraseCountDefault == 1
PassphraseWordCountDefault == 2
PassphraseSeparatorDefault == 45
PassphraseCasingDefault == PassphraseCasingLower
WordListDefault == << << 97, 98 >>, << 67, 100 >>, << 101 >> >> \* ["ab","Cd","e"]

\* The character classes of the package, one or two characters each.
AlphabetLower == << 97 >>                    \* "a"
AlphabetLowerAmbiguous == << 97, 108 >>      \* "al"
AlphabetUpper == << 65 >>                    \* "A"
AlphabetUpperAmbiguous == << 65, 79 >>       \* "AO"
AlphabetNumeric == << 50 >>                  \* "2"
AlphabetNumericAmbiguous == << 50, 48 >>     \* "20"
AlphabetSpecial == << 33 >>                  \* "!"
AlphabetDefault == AlphabetLower \o AlphabetUpper \o AlphabetNumeric
AlphabetDefaultAmbiguous ==
    AlphabetLowerAmbiguous \o AlphabetUpperAmbiguous \o AlphabetNumericAmbiguous

\* Errors the commands return themselves.
ErrCasingFlags == [param |-> "at most one casing method is allowed", lo |-> 0, hi |-> 0]
ErrSeparatorFlag == [param |-> "separator must be a single character", lo |-> 0, hi |-> 0]
ErrOpen == [param |-> "open", lo |-> 0, hi |-> 0]

\* The alphabet the class flags build in the string builder (password.go 101-158).
CmdPwClasses(f) ==
    (IF f.lowercase
     THEN (IF f.ambiguous THEN AlphabetLowerAmbiguous ELSE AlphabetLower) ELSE << >>)
    \o (IF f.uppercase
        THEN (IF f.ambiguous THEN AlphabetUpperAmbiguous ELSE AlphabetUpper) ELSE << >>)
    \o (IF f.numeric
        THEN (IF f.ambiguous THEN AlphabetNumericAmbiguous ELSE AlphabetNumeric)
        ELSE << >>)
    \o (IF f.special THEN AlphabetSpecial ELSE << >>)

\* Mutant of CmdPwAlphabet: the class flags are looked at first and the
\* --alphabet flag only when none of them built anything.
CmdPwAlphabetClassesFirst(f) ==
    IF CmdPwClasses(f) # << >> THEN CmdPwClasses(f)
    ELSE IF f.alphabet # << >> THEN f.alphabet
    ELSE IF f.ambiguous THEN AlphabetDefaultAmbiguous ELSE AlphabetDefault

\* passwordConfig.alphabet when GeneratePasswords is called (password.go 99-174).
CmdPwAlphabet(f) ==
    IF f.alphabet = << >>
    THEN IF CmdPwClasses(f) = << >>
         THEN (IF f.ambiguous THEN AlphabetDefaultAmbiguous ELSE AlphabetDefault)
         ELSE CmdPwClasses(f)
    ELSE f.alphabet

\* Mutant of CmdCasing: every set flag assigns the casing, the last one wins.
CmdCasingLastWins(f) ==
    [ok |-> TRUE,
     casing |-> IF f.none THEN PassphraseCasingNone
                ELSE IF f.title THEN PassphraseCasingTitle
                ELSE IF f.upper THEN PassphraseCasingUpper
                ELSE IF f.lower THEN PassphraseCasingLower
                ELSE PassphraseCasingDefault]

\* The four casing flags looked at in turn (passphrase.go 122-147): ok is
\* FALSE when the command returns its error, casing is passphraseConfig.casing.
CmdCasing(f) ==
    LET s0 == [ok |-> TRUE, casing |-> PassphraseCasingDefault, casingSet |-> FALSE]
        s1 == IF f.lower
              THEN [ok |-> TRUE, casing |-> PassphraseCasingLower, casingSet |-> TRUE]
              ELSE s0
        s2 == IF ~f.upper THEN s1
              ELSE IF s1.casingSet THEN [s1 EXCEPT !.ok = FALSE]
              ELSE [ok |-> TRUE, casing |-> PassphraseCasingUpper, casingSet |-> TRUE]
        s3 == IF ~s2.ok \/ ~f.title THEN s2
              ELSE IF s2.casingSet THEN [s2 EXCEPT !.ok = FALSE]
              ELSE [ok |-> TRUE, casing |-> PassphraseCasingTitle, casingSet |-> TRUE]
        s4 == IF ~s3.ok \/ ~f.none THEN s3
              ELSE IF s3.casingSet THEN [s3 EXCEPT !.ok = FALSE]
              ELSE [s3 EXCEPT !.casing = PassphraseCasingNone]
    IN [ok |-> s4.ok, casing |-> s4.casing]

\* strings.TrimSpace on an ASCII string with spaces only at its ends
RECURSIVE TrimSpace(_)
TrimSpace(w) ==
    IF Len(w) > 0 /\ Head(w) = 32 THEN TrimSpace(Tail(w))
    ELSE IF Len(w) > 0 /\ w[Len(w)] = 32 THEN TrimSpace(SubSeq(w, 1, Len(w) - 1))
    ELSE w

\* The flags of the password command.
CmdPwFlags ==
    [lowercase : BOOLEAN, uppercase : BOOLEAN, numeric : BOOLEAN, special : BOOLEAN,
     ambiguous : BOOLEAN, alphabet : { << >>, << 120, 121 >> }]

\* The flags of the passphrase command; file is "" (no --word-list), the
\* lines of a readable file, or "missing".
CmdPpFlags ==
    [lower : BOOLEAN, upper : BOOLEAN, title : BOOLEAN, none : BOOLEAN,
     separator : { << >>, << 95 >>, << 45, 45 >> },
     file : { "", "missing",
              << << 32, 65, 108, 102, 97 >>, << 66, 82, 65, 86, 79, 32 >> >> }]

\* The command returns e before the generator is called.
CmdFail(name, f, e) ==
    /\ fn' = name
    /\ args' = [count |-> 0, flags |-> f]
    /\ ReturnErr(e)
    /\ UNCHANGED << randSource, symSet, bitsPer, bytesPer, i, j, symIdx, bitIdx,
                    byteIdx, symBitIdx, buffer, b, acc, fills, got, picks >>

\* RunE of the password command up to and with the call of GeneratePasswords
\* (cmd/passgen/password.go 99-181); what the generator returns in out is
\* printed line by line.
CmdPassword(f, length, count) ==
    /\ pc = "idle"
    /\ args' = [count |-> count, length |-> length, alphabet |-> CmdPwAlphabet(f),
                flags |-> f]
    /\ PwEntry(count, length, CmdPwAlphabet(f))

\* RunE of the passphrase command up to and with the call of
\* GeneratePassphrases (cmd/passgen/passphrase.go 113-181).
CmdPassphrase(f, wordCount, count) ==
    /\ pc = "idle"
    /\ IF f.separator # << >> /\ RuneCountInString(f.separator) > 1
       THEN CmdFail("passphrase", f, ErrSeparatorFlag)
       ELSE IF ~CmdCasing(f).ok
       THEN CmdFail("passphrase", f, ErrCasingFlags)
       ELSE IF f.file = "missing"
       THEN CmdFail("passphrase", f, ErrOpen)
       ELSE LET separator == IF f.separator = << >> THEN PassphraseSeparatorDefault
                             ELSE Runes(f.separator)[1]
                wordList == IF f.file = "" THEN WordListDefault
                            ELSE [k \in DOMAIN f.file |-> TrimSpace(f.file[k])]
            IN /\ args' = [count |-> count, wordCount |-> wordCount,
                           separator |-> separator, casing |-> CmdCasing(f).casing,
                           wordList |-> wordList, flags |-> f]
               /\ PpEntry(count, wordCount, separator, CmdCasing(f).casing, wordList)

CmdPasswordAny ==
    \E f \in CmdPwFlags, length \in {PasswordLengthDefault, PasswordLengthMin - 1} :
        CmdPassword(f, length, PasswordCountDefault)

CmdPassphraseAny ==
    \E f \in CmdPpFlags :
        CmdPassphrase(f, PassphraseWordCountDefault, PassphraseCountDefault)

NextCmd ==
    \/ CmdPasswordAny
    \/ CmdPassphraseAny
    \/ PwFill
    \/ PwReadBit
    \/ PwWriteChar
    \/ PwAppend
    \/ PwReturn
    \/ PpFill
    \/ PpReadBit
    \/ PpWriteWord
    \/ PpAppend
    \/ PpReturn
    \/ Finish

SpecCmd == Init /\ [][NextCmd]_vars

(* ---------------- two calls running at once ---------------- *)
\* In this specification every local of the routines is a function of the
\* call that owns it; randSource alone is shared. The inner loops of one
\* artifact touch locals only and are taken in one step.
Calls == {1, 2}

EachCall(v) == [c \in Calls |-> v]

\* The byte the shared source delivers at position p of its stream.
StreamByte(p) == IF p % 3 = 0 THEN 255 ELSE 108

ConcSources ==
    { [unlimited |-> TRUE, left |-> 0, pos |-> 0] }
        \cup { [unlimited |-> FALSE, left |-> n, pos |-> 0] : n \in 0 .. MaxSrc }

\* How many bytes one Read of the source can copy when `need` are asked for.
SrcAvail(src, need) ==
    IF src.unlimited \/ src.left >= need THEN need ELSE src.left

\* One Read that copies k bytes: the stream moves on by k for every reader.
SrcTake(src, k) ==
    [src EXCEPT !.left = IF src.unlimited THEN @ ELSE @ - k, !.pos = @ + k]

\* The bytes at positions p .. p+k-1 of the stream.
SrcBytes(p, k) == [m \in 1 .. k |-> StreamByte(p + m - 1)]

SrcPositions(p, k) == [m \in 1 .. k |-> p + m - 1]

\* Mutant of CcStore: the buffer is one package-level slice used by every call.
CcStoreShared(bufs, c, data) == [d \in DOMAIN bufs |-> data]

\* passwordBuffer / passphraseBuffer is a local of the call that made it.
CcStore(bufs, c, data) == [bufs EXCEPT ![c] = data]

RECURSIVE Flatten(_)
Flatten(seqs) == IF Len(seqs) = 0 THEN << >> ELSE Head(seqs) \o Flatten(Tail(seqs))

\* The password the builder holds after the inner loops: one rune per index.
CcPwText(charSet, run) ==
    Flatten([n \in 1 .. Len(run) |-> EncodeRune(PwLookup(charSet, run[n].idx))])

\* The passphrase the builder holds after the inner loops.
CcPpText(wordSet, run, wordCount, separator) ==
    Flatten([n \in 1 .. Len(run) |->
                PpLookup(wordSet, run[n].idx)
                    \o PpSeparatorAfter(n - 1, wordCount, separator)])

InitConc ==
    /\ randSource \in ConcSources
    /\ pc = EachCall("idle")
    /\ fn = EachCall("none")
    /\ args = EachCall(NoArgs)
    /\ symSet = EachCall(<< >>)
    /\ bitsPer = EachCall(0)
    /\ bytesPer = EachCall(0)
    /\ i = EachCall(0)
    /\ j = EachCall(0)
    /\ symIdx = EachCall(0)
    /\ bitIdx = EachCall(0)
    /\ byteIdx = EachCall(0)
    /\ symBitIdx = EachCall(0)
    /\ buffer = EachCall(<< >>)
    /\ b = EachCall(<< >>)
    /\ acc = EachCall(<< >>)
    /\ out = EachCall(<< >>)
    /\ err = EachCall(NoErr)
    /\ fills = EachCall(0)
    /\ got = EachCall(<< >>)
    /\ picks = EachCall(<< >>)

\* return nil, e in call c
CcReturnErr(c, e) ==
    /\ pc' = [pc EXCEPT ![c] = "done"]
    /\ out' = [out EXCEPT ![c] = << >>]
    /\ err' = [err EXCEPT ![c] = e]

\* Call c enters GeneratePasswords or GeneratePassphrases with a universe of
\* n one-letter symbols: validation and the bit plan (password.go 19-57,
\* passphrase.go 24-79).
CcCall(c, f, count, length, n) ==
    /\ pc[c] = "idle"
    /\ fn' = [fn EXCEPT ![c] = f]
    /\ UNCHANGED << randSource, i, j, symIdx, bitIdx, byteIdx, symBitIdx, buffer,
                    b, acc, fills, got, picks >>
    /\ IF f = "password"
       THEN /\ args' = [args EXCEPT ![c] =
                          [count |-> count, length |-> length, alphabet |-> Letters(n)]]
            /\ IF ~PwCountOk(count)
               THEN /\ CcReturnErr(c, ErrCount(PasswordCountMin, PasswordCountMax))
                    /\ UNCHANGED << symSet, bitsPer, bytesPer >>
               ELSE IF ~PwLengthOk(length)
               THEN /\ CcReturnErr(c, ErrLength(PasswordLengthMin, PasswordLengthMax))
                    /\ UNCHANGED << symSet, bitsPer, bytesPer >>
               ELSE IF ~PwAlphabetOk(PwChars(Letters(n)))
               THEN /\ CcReturnErr(c, ErrAlphabet(AlphabetLengthMin))
                    /\ UNCHANGED << symSet, bitsPer, bytesPer >>
               ELSE /\ symSet' = [symSet EXCEPT ![c] = Letters(n)]
                    /\ bitsPer' = [bitsPer EXCEPT ![c] = PwBitsPerChar(n)]
                    /\ bytesPer' = [bytesPer EXCEPT ![c] = PwBytesPerPassword(n, length)]
                    /\ pc' = [pc EXCEPT ![c] = "loop"]
                    /\ UNCHANGED << out, err >>
       ELSE /\ args' = [args EXCEPT ![c] =
                          [count |-> count, wordCount |-> length, separator |-> 45,
                           casing |-> PassphraseCasingNone,
                           wordList |-> LetterWords(n)]]
            /\ IF ~PpCountOk(count)
               THEN /\ CcReturnErr(c, ErrCount(PassphraseCountMin, PassphraseCountMax))
                    /\ UNCHANGED << symSet, bitsPer, bytesPer >>
               ELSE IF ~PpWordCountOk(length)
               THEN /\ CcReturnErr(c, ErrWordCount(PassphraseWordCountMin,
                                                   PassphraseWordCountMax))
                    /\ UNCHANGED << symSet, bitsPer, bytesPer >>
               ELSE IF ~PpWordListOk(PpWords(PassphraseCasingNone, LetterWords(n)))
               THEN /\ CcReturnErr(c, ErrWordList(WordListLengthMin))
                    /\ UNCHANGED << symSet, bitsPer, bytesPer >>
               ELSE /\ symSet' = [symSet EXCEPT ![c] = LetterWords(n)]
                    /\ bitsPer' = [bitsPer EXCEPT ![c] = PpBitsPerWord(n)]
                    /\ bytesPer' = [bytesPer EXCEPT ![c] = PpBytesPerPassphrase(n, length)]
                    /\ pc' = [pc EXCEPT ![c] = "loop"]
                    /\ UNCHANGED << out, err >>

\* One Read of the source made by io.ReadFull in call c: at the loop head
\* with i < count the buffer is made first (password.go 59-62, passphrase.go
\* 81-84); a Read may copy fewer bytes than are still missing, and another
\* call may read between two Reads of one fill.
CcRead(c) ==
    /\ pc[c] \in {"loop", "fill"}
    /\ pc[c] = "loop" =>
         IF fn[c] = "password" THEN PwMore(i[c], args[c].count)
         ELSE PpMore(i[c], args[c].count)
    /\ LET cur == IF pc[c] = "loop" THEN << >> ELSE buffer[c]
           need == bytesPer[c] - Len(cur)
           avail == SrcAvail(randSource, need)
       IN
       /\ fills' = [fills EXCEPT ![c] = IF pc[c] = "loop" THEN @ + 1 ELSE @]
       /\ IF avail = 0
          THEN /\ CcReturnErr(c, IF Len(cur) = 0 THEN ErrEOF ELSE ErrUnexpectedEOF)
               /\ buffer' = CcStore(buffer, c, cur)
               /\ UNCHANGED << randSource, got >>
          ELSE \E k \in 1 .. avail :
               /\ randSource' = SrcTake(randSource, k)
               /\ got' = [got EXCEPT ![c] = @ \o SrcPositions(randSource.pos, k)]
               /\ buffer' = CcStore(buffer, c, cur \o SrcBytes(randSource.pos, k))
               /\ pc' = [pc EXCEPT ![c] =
                            IF Len(cur) + k = bytesPer[c] THEN "symbols" ELSE "fill"]
               /\ UNCHANGED << out, err >>
    /\ UNCHANGED << fn, args, symSet, bitsPer, bytesPer, i, j, symIdx, bitIdx,
                    byteIdx, symBitIdx, b, acc, picks >>

\* The inner loops of call c over its filled buffer, the append and the
\* reset of the builder (password.go 67-104, passphrase.go 89-131).
CcExtract(c) ==
    /\ pc[c] = "symbols"
    /\ \E run \in { IF fn[c] = "password"
                      THEN PwExtract(buffer[c], Len(symSet[c]), bitsPer[c],
                                     args[c].length, 0, 0, 0, 0, 0, << >>)
                      ELSE PpExtract(buffer[c], Len(symSet[c]), bitsPer[c],
                                     args[c].wordCount, 0, 0, 0, 0, 0, << >>) } :
       LET text == IF fn[c] = "password" THEN CcPwText(symSet[c], run)
                   ELSE CcPpText(symSet[c], run, args[c].wordCount, args[c].separator)
       IN
       /\ picks' = [picks EXCEPT ![c] =
                      Append(@, [n \in 1 .. Len(run) |->
                                   [raw |-> run[n].raw, idx |-> run[n].idx,
                                    sym |-> symSet[c][run[n].idx + 1]]])]
       /\ acc' = [acc EXCEPT ![c] = Append(@, text)]
    /\ i' = [i EXCEPT ![c] = @ + 1]
    /\ pc' = [pc EXCEPT ![c] = "loop"]
    /\ UNCHANGED << randSource, fn, args, symSet, bitsPer, bytesPer, j, symIdx,
                    bitIdx, byteIdx, symBitIdx, buffer, b, out, err, fills, got >>

\* Loop head of call c with i = count: return (password.go 107, passphrase.go 134).
CcReturn(c) ==
    /\ pc[c] = "loop"
    /\ IF fn[c] = "password" THEN ~PwMore(i[c], args[c].count)
       ELSE ~PpMore(i[c], args[c].count)
    /\ pc' = [pc EXCEPT ![c] = "done"]
    /\ out' = [out EXCEPT ![c] = acc[c]]
    /\ err' = [err EXCEPT ![c] = NoErr]
    /\ UNCHANGED << randSource, fn, args, symSet, bitsPer, bytesPer, i, j, symIdx,
                    bitIdx, byteIdx, symBitIdx, buffer, b, acc, fills, got, picks >>

CcCallAny ==
    \E c \in Calls, f \in {"password", "passphrase"},
       count \in 0 .. PasswordCountMax,
       length \in {PasswordLengthMin, PasswordLengthMax},
       n \in {AlphabetLengthMin, AlphabetLengthMin + 1} :
        CcCall(c, f, count, length, n)

CcReadAny == \E c \in Calls : CcRead(c)

CcExtractAny == \E c \in Calls : CcExtract(c)

CcReturnAny == \E c \in Calls : CcReturn(c)

NextConc ==
    \/ CcCallAny
    \/ CcReadAny
    \/ CcExtractAny
    \/ CcReturnAny

SpecConc == InitConc /\ [][NextConc]_vars

(* ---------------- properties ---------------- *)
Returned == pc = "done"

Succeeded == pc = "done" /\ err = NoErr

Failed == pc = "done" /\ err # NoErr /\ out = << >>

\* strings.Count(s, sep) for a non-empty sep, scanning from position k
RECURSIVE CountFrom(_, _, _)
CountFrom(s, sep, k) ==
    IF k + Len(sep) - 1 > Len(s) THEN 0
    ELSE IF SubSeq(s, k, k + Len(sep) - 1) = sep
    THEN 1 + CountFrom(s, sep, k + Len(sep))
    ELSE CountFrom(s, sep, k + 1)

\* len(strings.Split(s, sep)) for a non-empty sep
SplitLen(s, sep) == CountFrom(s, sep, 1) + 1

HasPrefix(s, sep) == Len(s) >= Len(sep) /\ SubSeq(s, 1, Len(sep)) = sep

HasSuffix(s, sep) ==
    Len(s) >= Len(sep) /\ SubSeq(s, Len(s) - Len(sep) + 1, Len(s)) = sep

\* w1 sep w2 sep ... sep wn
RECURSIVE JoinWords(_, _)
JoinWords(ws, sep) ==
    IF Len(ws) = 0 THEN << >>
    ELSE IF Len(ws) = 1 THEN ws[1]
    ELSE ws[1] \o sep \o JoinWords(Tail(ws), sep)

\* The words looked up for artifact k, in order.
PickedSyms(k) == [n \in 1 .. Len(picks[k]) |-> picks[k][n].sym]

\* C1: every password a successful GeneratePasswords returns is exactly
\* `length` code points long, whatever its length in bytes.
C1_PasswordLength ==
    (Succeeded /\ fn = "password") =>
        \A k \in 1 .. Len(out) : RuneCountInString(out[k]) = args.length

\* A returned password of a multi-byte alphabet: more bytes than code points.
C1_Witness ==
    /\ Succeeded /\ fn = "password"
    /\ Len(out) = 2
    /\ \E k \in 1 .. Len(out) :
        Len(out[k]) > args.length /\ RuneCountInString(out[k]) = args.length

\* C2: a successful call of either routine returns exactly `count` artifacts.
C2_ArtifactCount ==
    Succeeded => Len(out) = args.count

\* A successful passphrase call that asked for the maximum count.
C2_Witness ==
    /\ Succeeded /\ fn = "passphrase"
    /\ args.count = PassphraseCountMax
    /\ Len(out) = PassphraseCountMax

\* C3: every character of every returned password is a character of the
\* deduplicated alphabet.
C3_PasswordChars ==
    (Succeeded /\ fn = "password") =>
        \A k \in 1 .. Len(out) :
            \A n \in 1 .. Len(Runes(out[k])) :
                Runes(out[k])[n] \in Range(Runes(args.alphabet))

\* A returned password over a 3-character multi-byte alphabet in which some
\* assembled value had to be reduced.
C3_Witness ==
    /\ Succeeded /\ fn = "password"
    /\ Len(symSet) = 3
    /\ \E k \in 1 .. Len(picks) : \E n \in 1 .. Len(picks[k]) :
        picks[k][n].raw >= Len(symSet)

\* No universe word is empty or contains the separator.
CleanWords ==
    \A w \in Range(symSet) :
        Len(w) > 0 /\ CountFrom(w, EncodeRune(args.separator), 1) = 0

\* C4 as stated: every returned passphrase splits on the separator into
\* exactly wordCount pieces and neither begins nor ends with the separator.
C4_Original ==
    (Succeeded /\ fn = "passphrase") =>
        \A k \in 1 .. Len(out) :
            /\ SplitLen(out[k], EncodeRune(args.separator)) = args.wordCount
            /\ ~HasPrefix(out[k], EncodeRune(args.separator))
            /\ ~HasSuffix(out[k], EncodeRune(args.separator))

\* C4 (amended): every returned passphrase is its wordCount looked-up words
\* with one separator between each two consecutive words and none before the
\* first or after the last; when no universe word is empty or contains the
\* separator it splits into exactly wordCount pieces and neither begins nor
\* ends with the separator.
C4_PassphraseForm ==
    (Succeeded /\ fn = "passphrase") =>
        \A k \in 1 .. Len(out) :
            /\ Len(picks[k]) = args.wordCount
            /\ out[k] = JoinWords(PickedSyms(k), EncodeRune(args.separator))
            /\ CleanWords =>
                /\ SplitLen(out[k], EncodeRune(args.separator)) = args.wordCount
                /\ ~HasPrefix(out[k], EncodeRune(args.separator))
                /\ ~HasSuffix(out[k], EncodeRune(args.separator))

\* A returned 3-word passphrase over a clean universe.
C4_Witness ==
    /\ Succeeded /\ fn = "passphrase"
    /\ args.wordCount = 3
    /\ CleanWords
    /\ Len(out) >= 1
    /\ CountFrom(out[1], EncodeRune(args.separator), 1) = 2

\* The universe the casing policy defines: each input word under the policy.
PostCasing(casing, wordList) ==
    { IF casing = PassphraseCasingLower THEN ToLower(wordList[k])
      ELSE IF casing = PassphraseCasingUpper THEN ToUpper(wordList[k])
      ELSE IF casing = PassphraseCasingTitle THEN Title(wordList[k])
      ELSE wordList[k] : k \in DOMAIN wordList }

\* C5: every word written into a passphrase is a word of the post-casing
\* universe of the input word list.
C5_PassphraseWords ==
    (fn = "passphrase" /\ pc \in {"symbols", "loop", "done"}) =>
        \A k \in 1 .. Len(picks) : \A n \in 1 .. Len(picks[k]) :
            picks[k][n].sym \in PostCasing(args.casing, args.wordList)

\* A returned passphrase holding a word that is no input word as given.
C5_Witness ==
    /\ Succeeded /\ fn = "passphrase"
    /\ Len(out) >= 1
    /\ \E k \in 1 .. Len(picks) : \E n \in 1 .. Len(picks[k]) :
        picks[k][n].sym \notin Range(args.wordList)

\* C6: a count outside the configured bounds makes either routine return an
\* error and no output.
C6_CountOutOfRange ==
    /\ (Returned /\ fn = "password"
            /\ (args.count < PasswordCountMin \/ args.count > PasswordCountMax))
        => Failed
    /\ (Returned /\ fn = "passphrase"
            /\ (args.count < PassphraseCountMin \/ args.count > PassphraseCountMax))
        => Failed

\* A password call with every other argument valid and a count above the maximum.
C6_Witness ==
    /\ Failed /\ fn = "password"
    /\ args.count > PasswordCountMax
    /\ args.length = PasswordLengthMin
    /\ Cardinality(Range(Runes(args.alphabet))) >= 2

\* C7: a length (word count) outside the configured bounds makes the routine
\* return an error and no output; length 0 fails.
C7_LengthOutOfRange ==
    /\ (Returned /\ fn = "password"
            /\ (args.length < PasswordLengthMin \/ args.length > PasswordLengthMax))
        => Failed
    /\ (Returned /\ fn = "passphrase"
            /\ (args.wordCount < PassphraseWordCountMin
                    \/ args.wordCount > PassphraseWordCountMax))
        => Failed
    /\ (Returned /\ fn = "password" /\ args.length = 0) => Failed

\* A password call with length 0 and every other argument valid.
C7_Witness ==
    /\ Failed /\ fn = "password"
    /\ args.length = 0
    /\ args.count = PasswordCountMin
    /\ Cardinality(Range(Runes(args.alphabet))) >= 2

\* C8: an alphabet with fewer than 2 unique characters fails with no output;
\* one with at least 2 passes the alphabet check.
C8_AlphabetTooSmall ==
    (Returned /\ fn = "password") =>
        /\ Cardinality(Range(Runes(args.alphabet))) < 2 => Failed
        /\ Cardinality(Range(Runes(args.alphabet))) >= 2 => err.param # "alphabet"
        /\ (args.count \in PasswordCountMin .. PasswordCountMax
                /\ args.length \in PasswordLengthMin .. PasswordLengthMax
                /\ Cardinality(Range(Runes(args.alphabet))) < 2)
            => err = ErrAlphabet(2)

\* The alphabet that repeats one character, with valid count and length.
C8_Witness ==
    /\ Failed /\ fn = "password"
    /\ args.alphabet = << 120, 120 >>
    /\ err.param = "alphabet"

\* C9: the word-list check counts the words after the casing transform.
C9_UniqueAfterCasing ==
    (Returned /\ fn = "passphrase"
        /\ args.count \in PassphraseCountMin .. PassphraseCountMax
        /\ args.wordCount \in PassphraseWordCountMin .. PassphraseWordCountMax
        /\ args.casing \in {PassphraseCasingLower, PassphraseCasingUpper,
                            PassphraseCasingTitle, PassphraseCasingNone})
    => /\ Cardinality(PostCasing(args.casing, args.wordList)) < 2
            => (Failed /\ err = ErrWordList(2))
       /\ Cardinality(PostCasing(args.casing, args.wordList)) >= 2
            => err.param # "word list"

\* Two words that differ only in case, under the lowercase policy.
C9_Witness ==
    /\ Failed /\ fn = "passphrase"
    /\ args.casing = PassphraseCasingLower
    /\ Cardinality(Range(args.wordList)) = 2
    /\ err.param = "word list"

\* C10: an unrecognized casing selector fails with the invalid-casing error
\* and no output whenever count and word count are in range.
C10_InvalidCasing ==
    (Returned /\ fn = "passphrase"
        /\ args.count \in PassphraseCountMin .. PassphraseCountMax
        /\ args.wordCount \in PassphraseWordCountMin .. PassphraseWordCountMax
        /\ args.casing \notin {PassphraseCasingLower, PassphraseCasingUpper,
                               PassphraseCasingTitle, PassphraseCasingNone})
    => (Failed /\ err = ErrCasing)

\* An unrecognized casing with a word list that would otherwise be accepted.
C10_Witness ==
    /\ Failed /\ fn = "passphrase"
    /\ args.casing = 255
    /\ Cardinality(Range(args.wordList)) = 3
    /\ err = ErrCasing

\* ---- C11 .. C20 ----
\* The length argument of the running call: length or wordCount.
SymCount == IF fn = "password" THEN args.length ELSE args.wordCount

Running == pc \in {"loop", "symbols", "done"} /\ fn # "none"

\* Bit p (from 0) of buf read as a big-endian bitstream.
BitAt(buf, p) == (buf[(p \div 8) + 1] \div (2 ^ (7 - (p % 8)))) % 2

\* The unsigned value of the nbits bits of buf that start at bit `from`,
\* the first bit being the most significant.
RECURSIVE BitsValue(_, _, _)
BitsValue(buf, from, nbits) ==
    IF nbits = 0 THEN 0
    ELSE BitsValue(buf, from, nbits - 1) * 2 + BitAt(buf, from + nbits - 1)

\* Bytes [(k-1)*B, k*B) of the stream delivered to the running call.
Segment(k) == SubSeq(got, (k - 1) * bytesPer + 1, k * bytesPer)

Indices(k) == [n \in 1 .. Len(picks[k]) |-> picks[k][n].idx]

EofErrs == {ErrEOF, ErrUnexpectedEOF}

\* C11: when the source cannot fill the buffer of some artifact the call
\* returns a read error and no artifact, whatever was assembled before.
C11_AllOrNothing ==
    /\ (Returned /\ Len(got) < fills * bytesPer) => (Failed /\ err \in EofErrs)
    /\ (Returned /\ err \in EofErrs) => (out = << >> /\ Len(got) < fills * bytesPer)

\* The source ran dry at the second artifact, the first one being assembled.
C11_Witness ==
    /\ Failed /\ err = ErrEOF
    /\ fills = 2
    /\ Len(acc) = 1

\* C12: two artifacts of a call extracted from equal buffers (same bits per
\* symbol, universe and length) have the same sequence of indices.
C12_Deterministic ==
    Running =>
        \A k1, k2 \in 1 .. Len(picks) :
            (/\ Len(picks[k1]) = SymCount
             /\ Len(picks[k2]) = SymCount
             /\ Segment(k1) = Segment(k2))
            => Indices(k1) = Indices(k2)

\* Two artifacts from equal buffers whose indices are not all the same.
C12_Witness ==
    /\ Succeeded
    /\ Len(picks) = 2
    /\ Segment(1) = Segment(2)
    /\ Len(picks[1]) >= 2
    /\ Indices(1) = Indices(2)
    /\ Indices(1)[1] # Indices(1)[2]

\* C13: bits per symbol is the least b with 2^b >= N, the buffer holds
\* ceil(b*L/8) bytes, and every buffer of the call has that size.
C13_BitPlan ==
    Running =>
        /\ 2 ^ bitsPer >= Len(symSet)
        /\ 2 ^ (bitsPer - 1) < Len(symSet)
        /\ bytesPer * 8 >= bitsPer * SymCount
        /\ (bytesPer - 1) * 8 < bitsPer * SymCount
        /\ fills > 0 => Len(buffer) = bytesPer
        /\ Len(got) >= Len(picks) * bytesPer

\* A second artifact of a 5-symbol universe: 3 bits, 9 bits in 2 bytes.
C13_Witness ==
    /\ Succeeded
    /\ Len(symSet) = 5 /\ SymCount = 3
    /\ bitsPer = 3 /\ bytesPer = 2
    /\ fills = 2 /\ Len(got) = 4

\* C14: symbol n (from 0) of an artifact is the value of bits [n*b, (n+1)*b)
\* of its buffer read as a big-endian bitstream, most significant bit first,
\* and the bit cursor runs on across symbols, starting at 0 for each buffer.
C14_BitSliced ==
    (Running /\ Len(picks) > 0 /\ err = NoErr) =>
        /\ \A n \in 1 .. Len(picks[Len(picks)]) :
            picks[Len(picks)][n].raw
                = BitsValue(buffer, (n - 1) * bitsPer, bitsPer)
        /\ pc = "symbols" =>
            /\ j = Len(picks[Len(picks)])
            /\ bitIdx = j * bitsPer + symBitIdx
            /\ symIdx = BitsValue(buffer, j * bitsPer, symBitIdx)
        /\ pc = "loop" => bitIdx = SymCount * bitsPer

\* A 3-bit artifact whose third symbol lies across the first byte boundary.
C14_Witness ==
    /\ Succeeded
    /\ bitsPer = 3
    /\ Len(picks[1]) >= 3
    /\ picks[1][3].raw # picks[1][1].raw
    /\ picks[1][3].raw # 0 /\ picks[1][3].raw # 7

\* C15: every index looked up is the assembled value modulo the universe
\* size, lies in [0, N), and no lookup is out of range.
C15_IndexInRange ==
    /\ pc # "panic"
    /\ Running =>
        \A k \in 1 .. Len(picks) : \A n \in 1 .. Len(picks[k]) :
            /\ picks[k][n].idx = picks[k][n].raw % Len(symSet)
            /\ picks[k][n].idx >= 0
            /\ picks[k][n].idx < Len(symSet)
            /\ picks[k][n].sym = symSet[picks[k][n].idx + 1]

\* A word looked up from an assembled value that exceeded the universe.
C15_Witness ==
    /\ Succeeded /\ fn = "passphrase"
    /\ Len(symSet) = 5
    /\ \E k \in 1 .. Len(picks) : \E n \in 1 .. Len(picks[k]) :
        picks[k][n].raw = 7 /\ picks[k][n].idx = 2

\* The passphrase routine is past validation: its universe is built.
PpBuilt == fn = "passphrase" /\ (pc \in {"loop", "symbols"} \/ Succeeded)

AlfaBravo == << << 65, 108, 102, 97 >>, << 66, 82, 65, 86, 79 >> >>

\* u is w with every A-Z letter replaced by its a-z letter
IsLowerOf(u, w) ==
    /\ Len(u) = Len(w)
    /\ \A k \in 1 .. Len(w) :
        /\ ~IsUpperAZ(u[k])
        /\ u[k] = w[k] \/ (IsUpperAZ(w[k]) /\ u[k] = w[k] + 32)

\* u is w with every a-z letter replaced by its A-Z letter
IsUpperOf(u, w) ==
    /\ Len(u) = Len(w)
    /\ \A k \in 1 .. Len(w) :
        /\ ~IsLowerAZ(u[k])
        /\ u[k] = w[k] \/ (IsLowerAZ(w[k]) /\ u[k] = w[k] - 32)

\* The universe is exactly the set of R-images of the input words.
UniverseIs(R(_, _)) ==
    /\ \A k \in DOMAIN args.wordList :
        \E u \in Range(symSet) : R(u, args.wordList[k])
    /\ \A u \in Range(symSet) :
        \E k \in DOMAIN args.wordList : R(u, args.wordList[k])

\* C16: the lowercase, uppercase and none policies build the universe of
\* the lowercased, the uppercased and the unchanged input words
\* (["Alfa","BRAVO"] lowercased is {"alfa","bravo"}), and the words written
\* into the passphrases are words of that universe.
C16_CasingTransforms ==
    PpBuilt =>
        /\ args.casing = PassphraseCasingLower =>
            /\ UniverseIs(IsLowerOf)
            /\ args.wordList = AlfaBravo =>
                Range(symSet) = { << 97, 108, 102, 97 >>,
                                  << 98, 114, 97, 118, 111 >> }
        /\ args.casing = PassphraseCasingUpper =>
            /\ UniverseIs(IsUpperOf)
            /\ args.wordList = AlfaBravo =>
                Range(symSet) = { << 65, 76, 70, 65 >>,
                                  << 66, 82, 65, 86, 79 >> }
        /\ args.casing = PassphraseCasingNone =>
            Range(symSet) = Range(args.wordList)
        /\ args.casing \in {PassphraseCasingLower, PassphraseCasingUpper,
                             PassphraseCasingNone} =>
            /\ \A k \in 1 .. Len(picks) : \A n \in 1 .. Len(picks[k]) :
                picks[k][n].sym \in Range(symSet)
            /\ Succeeded => \A k \in 1 .. Len(out) :
                out[k] = JoinWords(PickedSyms(k), EncodeRune(args.separator))

\* A lowercased passphrase over ["Alfa","BRAVO"] that holds "bravo".
C16_Witness ==
    /\ Succeeded /\ fn = "passphrase"
    /\ args.casing = PassphraseCasingLower
    /\ args.wordList = AlfaBravo
    /\ Len(out) >= 1
    /\ \E n \in 1 .. Len(picks[1]) :
        picks[1][n].sym = << 98, 114, 97, 118, 111 >>

\* The statement as written: title-casing ["Alfa","BRAVO"] gives
\* {"Alfa","Bravo"}.
C17_Original ==
    (PpBuilt /\ args.casing = PassphraseCasingTitle
            /\ args.wordList = AlfaBravo) =>
        Range(symSet) = { << 65, 108, 102, 97 >>, << 66, 114, 97, 118, 111 >> }

\* C17: with the title-case policy the word list ["Alfa","BRAVO"]
\* deduplicates to the universe {"Alfa","BRAVO"}: letters after the first
\* keep their case.
C17_TitleExample ==
    (PpBuilt /\ args.casing = PassphraseCasingTitle
            /\ args.wordList = AlfaBravo) =>
        Range(symSet) = { << 65, 108, 102, 97 >>, << 66, 82, 65, 86, 79 >> }

\* A title-cased passphrase over ["Alfa","BRAVO"] that holds "BRAVO".
C17_Witness ==
    /\ Succeeded /\ fn = "passphrase"
    /\ args.casing = PassphraseCasingTitle
    /\ args.wordList = AlfaBravo
    /\ Len(out) >= 1
    /\ \E n \in 1 .. Len(picks[1]) :
        picks[1][n].sym = << 66, 82, 65, 86, 79 >>

\* u is w with its first letter capitalized and the remainder unchanged
IsFirstUpperOf(u, w) ==
    /\ Len(u) = Len(w)
    /\ \A k \in 1 .. Len(w) :
        IF k = 1 /\ IsLowerAZ(w[k]) THEN u[k] = w[k] - 32 ELSE u[k] = w[k]

IsWordChar(c) == IsUpperAZ(c) \/ IsLowerAZ(c) \/ (c >= 48 /\ c <= 57) \/ c = 95

\* u is w with the a-z letters capitalized that start w or follow a
\* character that is no letter, digit or underscore; the rest unchanged
IsTitleOf(u, w) ==
    /\ Len(u) = Len(w)
    /\ \A k \in 1 .. Len(w) :
        IF IsLowerAZ(w[k]) /\ (k = 1 \/ ~IsWordChar(w[k - 1]))
        THEN u[k] = w[k] - 32 ELSE u[k] = w[k]

C19_NoRetry ==
    /\ fills = Len(picks) + (IF err \in EofErrs THEN 1 ELSE 0)
    /\ err \in EofErrs => pc = "done"
    /\ (Running /\ fills > 0) => fills <= args.count
    /\ Succeeded => fills = args.count

\* The second fill of a passphrase call failed: two fills, one artifact
\* started, no third read.
C19_Witness ==
    /\ Failed /\ err \in EofErrs
    /\ fn = "passphrase"
    /\ args.count = 2
    /\ fills = 2
    /\ Len(picks) = 1

\* C20: artifact k is built only from the k-th run of bytesPer bytes the
\* source delivered to the call, the buffer in use is that run, and a
\* successful call has consumed exactly count * bytesPer bytes.
C20_NoByteReuse ==
    Running =>
        /\ \A k \in 1 .. Len(picks) : \A n \in 1 .. Len(picks[k]) :
            picks[k][n].raw = BitsValue(Segment(k), (n - 1) * bitsPer, bitsPer)
        /\ pc = "symbols" => buffer = Segment(Len(picks))
        /\ Succeeded => Len(got) = args.count * bytesPer

\* Two passwords of one call built from two different runs of bytes.
C20_Witness ==
    /\ Succeeded /\ fn = "password"
    /\ args.count = 2
    /\ Len(got) = 2 * bytesPer
    /\ Segment(1) # Segment(2)
    /\ Indices(1) # Indices(2)

\* ---- C21 .. C30 ----
\* The bytes of the k-th buffer call c filled, looked up in the stream at
\* the positions the source delivered to that call.
CcSegment(c, k) ==
    [m \in 1 .. bytesPer[c] |-> StreamByte(got[c][(k - 1) * bytesPer[c] + m])]

CcSucceeded(c) == pc[c] = "done" /\ err[c] = NoErr

CcSyms(c, k) == [n \in 1 .. Len(picks[c][k]) |-> picks[c][k][n].sym]

\* C21: two calls running at once share only the source: no stream position
\* is delivered to both, every position consumed went to one of them, each
\* call's buffer and the symbols of its latest artifact come from its own
\* positions only, and each
\* successful call returns count artifacts of the asked length over its own
\* universe.
C21_Concurrent ==
    /\ \A c \in Calls, d \in Calls :
        c # d => Range(got[c]) \cap Range(got[d]) = {}
    /\ Cardinality(UNION { Range(got[c]) : c \in Calls }) = randSource.pos
    /\ \A c \in Calls :
        /\ pc[c] = "symbols" =>
            /\ Len(got[c]) = (Len(picks[c]) + 1) * bytesPer[c]
            /\ buffer[c] = CcSegment(c, Len(picks[c]) + 1)
        /\ Len(picks[c]) > 0 =>
            LET k == Len(picks[c]) IN
            \A n \in 1 .. Len(picks[c][k]) :
                /\ picks[c][k][n].raw =
                     BitsValue(CcSegment(c, k), (n - 1) * bitsPer[c], bitsPer[c])
                /\ picks[c][k][n].sym \in Range(symSet[c])
        /\ CcSucceeded(c) =>
            /\ Len(out[c]) = args[c].count
            /\ Len(picks[c]) = args[c].count
            /\ \A k \in 1 .. Len(out[c]) :
                IF fn[c] = "password"
                THEN /\ Len(picks[c][k]) = args[c].length
                     /\ Runes(out[c][k]) = CcSyms(c, k)
                ELSE /\ Len(picks[c][k]) = args[c].wordCount
                     /\ out[c][k] = JoinWords(CcSyms(c, k), EncodeRune(args[c].separator))

\* Both calls returned two artifacts each, their reads interleaved: another
\* call read between the two Reads of one fill of call 1.
C21_Witness ==
    /\ \A c \in Calls : CcSucceeded(c) /\ args[c].count = 2
    /\ fn[1] = "password" /\ fn[2] = "passphrase"
    /\ bytesPer[1] = 2
    /\ got[1][2] > got[1][1] + 1
    /\ \E q \in Range(got[2]) : q < got[1][1]

\* C22: the error of an out-of-range count names the count and carries the
\* count bounds, the error of an out-of-range length (word count) names the
\* length (word count) and carries its bounds, so the two are distinct.
C22_DistinctRangeErrors ==
    /\ (Returned /\ fn = "password") =>
        /\ (args.count < PasswordCountMin \/ args.count > PasswordCountMax) =>
            /\ err.param = "count"
            /\ err.lo = PasswordCountMin /\ err.hi = PasswordCountMax
        /\ (args.count >= PasswordCountMin /\ args.count <= PasswordCountMax
                /\ (args.length < PasswordLengthMin \/ args.length > PasswordLengthMax)) =>
            /\ err.param = "length"
            /\ err.lo = PasswordLengthMin /\ err.hi = PasswordLengthMax
    /\ (Returned /\ fn = "passphrase") =>
        /\ (args.count < PassphraseCountMin \/ args.count > PassphraseCountMax) =>
            /\ err.param = "count"
            /\ err.lo = PassphraseCountMin /\ err.hi = PassphraseCountMax
        /\ (args.count >= PassphraseCountMin /\ args.count <= PassphraseCountMax
                /\ (args.wordCount < PassphraseWordCountMin
                        \/ args.wordCount > PassphraseWordCountMax)) =>
            /\ err.param = "word count"
            /\ err.lo = PassphraseWordCountMin /\ err.hi = PassphraseWordCountMax
    /\ Returned => (err.param = "count") =
                     IF fn = "password"
                     THEN args.count < PasswordCountMin \/ args.count > PasswordCountMax
                     ELSE args.count < PassphraseCountMin \/ args.count > PassphraseCountMax

\* A password call with a valid count and a length above the maximum.
C22_Witness ==
    /\ Failed /\ fn = "password"
    /\ args.count = PasswordCountMin
    /\ args.length = PasswordLengthMax + 1
    /\ err.param = "length"

\* How many of the four casing flags are set.
CasingFlagCount(f) ==
    (IF f.lower THEN 1 ELSE 0) + (IF f.upper THEN 1 ELSE 0)
        + (IF f.title THEN 1 ELSE 0) + (IF f.none THEN 1 ELSE 0)

\* C23: the passphrase command with two or more casing flags returns an
\* error, never calls the generator and prints nothing; with one flag the
\* generator is called with that casing, with none with the default casing.
C23_CasingFlags ==
    (fn = "passphrase" /\ pc # "idle") =>
        /\ CasingFlagCount(args.flags) >= 2 =>
            /\ pc = "done" /\ err # NoErr /\ out = << >>
            /\ "casing" \notin DOMAIN args
            /\ fills = 0
        /\ err = ErrCasingFlags => CasingFlagCount(args.flags) >= 2
        /\ "casing" \in DOMAIN args =>
            /\ CasingFlagCount(args.flags) <= 1
            /\ args.flags.lower => args.casing = PassphraseCasingLower
            /\ args.flags.upper => args.casing = PassphraseCasingUpper
            /\ args.flags.title => args.casing = PassphraseCasingTitle
            /\ args.flags.none => args.casing = PassphraseCasingNone
            /\ CasingFlagCount(args.flags) = 0 => args.casing = PassphraseCasingDefault

\* The command run with --title-case and --no-casing has returned its error.
C23_Witness ==
    /\ Failed /\ fn = "passphrase"
    /\ args.flags.title /\ args.flags.none
    /\ ~args.flags.lower /\ ~args.flags.upper
    /\ err = ErrCasingFlags

NoClassFlag(f) == ~f.lowercase /\ ~f.uppercase /\ ~f.numeric /\ ~f.special

\* C24: in the password command a non-empty --alphabet is the alphabet the
\* generator gets, whatever the class flags are, and the passwords are made
\* of its characters; with --alphabet empty and no class flag the generator
\* gets the default alphabet, its ambiguous variant under --ambiguous.
C24_AlphabetFlag ==
    (fn = "password" /\ pc # "idle") =>
        /\ args.flags.alphabet # << >> =>
            /\ args.alphabet = args.flags.alphabet
            /\ \A k \in 1 .. Len(picks) : \A n \in 1 .. Len(picks[k]) :
                picks[k][n].sym \in Range(Runes(args.flags.alphabet))
        /\ (args.flags.alphabet = << >> /\ NoClassFlag(args.flags)) =>
            args.alphabet = IF args.flags.ambiguous THEN AlphabetDefaultAmbiguous
                            ELSE AlphabetDefault

\* A password printed by the command run with every class flag and
\* --alphabet xy.
C24_Witness ==
    /\ Succeeded /\ fn = "password"
    /\ args.flags.lowercase /\ args.flags.uppercase /\ args.flags.numeric
    /\ args.flags.special /\ args.flags.ambiguous
    /\ args.flags.alphabet = << 120, 121 >>
    /\ Len(out) = PasswordCountDefault
    /\ out[1] = << 121, 120 >>

\* The last symbol of the current artifact has been extracted and no later
\* buffer has been filled yet.
ArtifactExtracted ==
    /\ Running /\ fills > 0 /\ err = NoErr
    /\ pc \in {"loop", "done"} \/ (pc = "symbols" /\ j >= SymCount)

\* C25: after the last symbol of an artifact the bit cursor stands at
\* bitsPer * length, fewer than 8 bits of the buffer are unread, and they
\* all lie in its final byte, so every byte has given at least one bit.
C25_BufferConsumed ==
    ArtifactExtracted =>
        /\ bitIdx = bitsPer * SymCount
        /\ 8 * Len(buffer) - bitIdx >= 0
        /\ 8 * Len(buffer) - bitIdx < 8
        /\ \A k \in 0 .. Len(buffer) - 1 : bitIdx > 8 * k
        /\ byteIdx >= Len(buffer) - 1

\* Three 3-bit symbols from a 2-byte buffer: 7 bits of the last byte unread.
C25_Witness ==
    /\ ArtifactExtracted /\ pc = "loop"
    /\ bitsPer = 3 /\ SymCount = 3
    /\ Len(buffer) = 2
    /\ bitIdx = 9
    /\ byteIdx = 1

\* A bit is about to be read by the inner loop.
AboutToRead == pc = "symbols" /\ j < SymCount /\ symBitIdx < bitsPer

\* C26: every read of the buffer is in bounds: while an artifact is
\* extracted byteIdx = floor(bitIdx / 8), a bit is only read with byteIdx
\* below the buffer length, and byteIdx reaches the buffer length only when
\* the final bit has been read.
C26_ReadsInBounds ==
    /\ pc # "panic"
    /\ pc = "symbols" =>
        /\ byteIdx = bitIdx \div 8
        /\ byteIdx <= Len(buffer)
        /\ AboutToRead => (byteIdx < Len(buffer) /\ bitIdx < bitsPer * SymCount)
        /\ byteIdx = Len(buffer) => (bitIdx = bitsPer * SymCount /\ ~AboutToRead)

\* Four 4-bit symbols have used both bytes to the last bit: byteIdx stands
\* at the buffer length and nothing is read any more.
C26_Witness ==
    /\ pc = "symbols"
    /\ bitsPer = 4 /\ SymCount = 4
    /\ Len(buffer) = 2
    /\ byteIdx = 2
    /\ j = 3 /\ symBitIdx = 4

\* The arguments a fail validation in routine f, read off the arguments alone.
InvalidRequest(f, a) ==
    IF f = "password"
    THEN \/ a.count < PasswordCountMin \/ a.count > PasswordCountMax
         \/ a.length < PasswordLengthMin \/ a.length > PasswordLengthMax
         \/ Cardinality(Range(Runes(a.alphabet))) < AlphabetLengthMin
    ELSE \/ a.count < PassphraseCountMin \/ a.count > PassphraseCountMax
         \/ a.wordCount < PassphraseWordCountMin
         \/ a.wordCount > PassphraseWordCountMax
         \/ a.casing \notin {PassphraseCasingLower, PassphraseCasingUpper,
                             PassphraseCasingTitle, PassphraseCasingNone}
         \/ Cardinality(PostCasing(a.casing, a.wordList)) < WordListLengthMin

\* C27: a call whose arguments fail validation returns in its first step
\* with an error, and that step leaves the random source as it was and
\* makes no read; the returned call has read nothing.
C27_NoReadOnInvalid ==
    [][(pc = "idle" /\ pc' # "idle" /\ InvalidRequest(fn', args')) =>
            /\ pc' = "done" /\ err' # NoErr /\ out' = << >>
            /\ randSource' = randSource
            /\ fills' = 0 /\ got' = << >>]_vars

\* A passphrase call with too many words has returned, the source being a
\* finite reader that still holds all its bytes.
C27_Witness ==
    /\ Failed /\ fn = "passphrase"
    /\ args.count = PassphraseCountMin
    /\ args.wordCount = PassphraseWordCountMax + 1
    /\ ~randSource.unlimited /\ randSource.left = MaxSrc
    /\ fills = 0

CountBad(f, a) ==
    IF f = "password"
    THEN a.count < PasswordCountMin \/ a.count > PasswordCountMax
    ELSE a.count < PassphraseCountMin \/ a.count > PassphraseCountMax

LengthBad(f, a) ==
    IF f = "password"
    THEN a.length < PasswordLengthMin \/ a.length > PasswordLengthMax
    ELSE a.wordCount < PassphraseWordCountMin \/ a.wordCount > PassphraseWordCountMax

CasingBad(f, a) ==
    f = "passphrase"
        /\ a.casing \notin {PassphraseCasingLower, PassphraseCasingUpper,
                            PassphraseCasingTitle, PassphraseCasingNone}

\* C28: the error of a call is that of the first failing check in the order
\* count, length (word count), casing, universe size, however many of the
\* arguments are invalid.
C28_ValidationOrder ==
    Returned =>
        /\ CountBad(fn, args) => err.param = "count"
        /\ (~CountBad(fn, args) /\ LengthBad(fn, args)) =>
            err.param = IF fn = "password" THEN "length" ELSE "word count"
        /\ (~CountBad(fn, args) /\ ~LengthBad(fn, args) /\ CasingBad(fn, args)) =>
            err = ErrCasing
        /\ (~CountBad(fn, args) /\ ~LengthBad(fn, args) /\ ~CasingBad(fn, args)
                /\ InvalidRequest(fn, args)) =>
            err.param = IF fn = "password" THEN "alphabet" ELSE "word list"

\* Count and word count out of range, the casing invalid and the word list
\* empty, all at once: the count error is returned.
C28_Witness ==
    /\ Failed /\ fn = "passphrase"
    /\ args.count = PassphraseCountMax + 1
    /\ args.wordCount = 0
    /\ args.casing = 255
    /\ args.wordList = << >>
    /\ err.param = "count"

\* The reduction of the running routine.
Reduce(v, n) == IF fn = "password" THEN PwReduce(v, n) ELSE PpReduce(v, n)

\* The bitsPer-bit values that are reduced to index idx.
Preimages(idx) ==
    { v \in 0 .. 2 ^ bitsPer - 1 : Reduce(v, Len(symSet)) = idx }

IsPowerOfTwo(n) == \E e \in 0 .. n : 2 ^ e = n

\* C29: with b = bitsPer and N the universe size, every index below N is
\* the reduction of some b-bit value: of exactly one when N is a power of
\* two (the value itself), otherwise of two for the indices below 2^b - N
\* and of one for the others; every assembled value is used for a symbol,
\* none is dropped or drawn again.
C29_ModuloBias ==
    (Running /\ Len(symSet) >= 2) =>
        /\ pc = "loop" =>
            /\ \A idx \in 0 .. Len(symSet) - 1 :
                /\ Preimages(idx) # {}
                /\ IsPowerOfTwo(Len(symSet)) => Preimages(idx) = {idx}
                /\ ~IsPowerOfTwo(Len(symSet)) =>
                    Cardinality(Preimages(idx)) =
                        IF idx < 2 ^ bitsPer - Len(symSet) THEN 2 ELSE 1
            /\ \A v \in 0 .. 2 ^ bitsPer - 1 :
                Reduce(v, Len(symSet)) \in 0 .. Len(symSet) - 1
        /\ Len(picks) > 0 => \A n \in 1 .. Len(picks[Len(picks)]) :
            /\ picks[Len(picks)][n].idx =
                 Reduce(picks[Len(picks)][n].raw, Len(symSet))
            /\ picks[Len(picks)][n].raw =
                 BitsValue(Segment(Len(picks)), (n - 1) * bitsPer, bitsPer)
        /\ Succeeded => \A k \in 1 .. Len(picks) : Len(picks[k]) = SymCount

\* A universe of 3 symbols: the values 0 and 3 were both assembled in one
\* call and both gave index 0.
C29_Witness ==
    /\ Succeeded
    /\ Len(symSet) = 3
    /\ \E k1 \in 1 .. Len(picks), k2 \in 1 .. Len(picks) :
       \E n1 \in 1 .. Len(picks[k1]), n2 \in 1 .. Len(picks[k2]) :
        /\ picks[k1][n1].raw = 0 /\ picks[k1][n1].idx = 0
        /\ picks[k2][n2].raw = 3 /\ picks[k2][n2].idx = 0

\* The [raw, idx] pairs recorded for artifact k.
RawIdx(k) ==
    [n \in 1 .. Len(picks[k]) |-> [raw |-> picks[k][n].raw, idx |-> picks[k][n].idx]]

\* C30: the two routines extract alike: the buffer size the running routine
\* asks for is the one the other routine computes for the same universe
\* size and length, and each time an artifact is finished the indices
\* derived for it are those the other routine's loops derive from the same
\* bytes; the
\* password is the looked-up runes, the passphrase the looked-up words
\* joined by the separator.
C30_SameExtraction ==
    (Running /\ pc = "loop") =>
        /\ fn = "password" =>
            /\ bitsPer = PpBitsPerWord(Len(symSet))
            /\ bytesPer = PpBytesPerPassphrase(Len(symSet), args.length)
            /\ Len(acc) > 0 =>
                /\ RawIdx(Len(acc)) =
                     PpExtract(Segment(Len(acc)), Len(symSet), bitsPer,
                               args.length, 0, 0, 0, 0, 0, << >>)
                /\ Runes(acc[Len(acc)]) = PickedSyms(Len(acc))
        /\ fn = "passphrase" =>
            /\ bitsPer = PwBitsPerChar(Len(symSet))
            /\ bytesPer = PwBytesPerPassword(Len(symSet), args.wordCount)
            /\ Len(acc) > 0 =>
                /\ RawIdx(Len(acc)) =
                     PwExtract(Segment(Len(acc)), Len(symSet), bitsPer,
                               args.wordCount, 0, 0, 0, 0, 0, << >>)
                /\ acc[Len(acc)] =
                     JoinWords(PickedSyms(Len(acc)), EncodeRune(args.separator))

\* A passphrase call of two 3-word passphrases over 5 words that drew
\* different indices for the two.
C30_Witness ==
    /\ Succeeded /\ fn = "passphrase"
    /\ Len(symSet) = 5
    /\ args.wordCount = 3
    /\ Len(out) = 2
    /\ RawIdx(1) # RawIdx(2)

====
